---- MODULE Spec2Model ----
(***************************************************************************)
(* Model of libs/hwui/Animator.cpp: BaseRenderNodeAnimator, the render     *)
(* thread animator of one float property of one target.                    *)
(*                                                                         *)
(* One animator and one target are modelled.  The control side calls the   *)
(* setters, start/cancel and pushStaging (the commit); the render side     *)
(* calls animate (the per-frame evaluation).  Every call is one action.    *)
(* A call that hits LOG_ALWAYS_FATAL aborts the process: the action        *)
(* leaves the fields as they were at the abort and records the reason in   *)
(* `crashed`; no action is enabled afterwards.                             *)
(*                                                                         *)
(* float is modelled as a binary floating-point format of MantBits         *)
(* significant bits whose quantum is 1: a value is an integer with at most *)
(* MantBits significant bits, and every arithmetic result is rounded to    *)
(* the nearest such value, ties to even (RoundF).  A progress fraction is  *)
(* a number k in 0..FracScale standing for k/FracScale.                    *)
(***************************************************************************)
EXTENDS Integers, FiniteSets, Sequences, TLC

\* ------------------------------------------------------------------ bounds
MantBits == 3       \* significant bits of the modelled float format
FracScale == 4      \* a progress fraction is k/FracScale, k in 0..FracScale
MaxTime == 3        \* frame times passed in a TreeInfo are 0..MaxTime
MaxDuration == 2    \* setDuration arguments are -1, 0 and MaxDuration
MaxDelay == 2       \* setStartDelay arguments are -MaxDelay, 0 and 1
MaxNotify == 2      \* animate is not called after this many notifications

\* --------------------------------------------------------- program values
\* enum PlayState, in the order the code compares them in
NOT_STARTED == 0
RUNNING == 1
FINISHED == 2
PlayStates == {NOT_STARTED, RUNNING, FINISHED}

DefaultDuration == 300

NullInterpolator == "null"
DefaultInterpolator == "default"
Interpolators == {"linear", "reverse", DefaultInterpolator}

FrameTimes == 0..MaxTime
Durations == {-1, 0, MaxDuration}
StartDelays == {-MaxDelay, 0, 1}

\* -------------------------------------------------------------- float model
RECURSIVE Pow2(_)
Pow2(n) == IF n = 0 THEN 1 ELSE 2 * Pow2(n - 1)

RECURSIVE Quantum(_, _)
\* the spacing of the representable values around x >= 0
Quantum(x, q) == IF x < q * Pow2(MantBits) THEN q ELSE Quantum(x, 2 * q)

\* x >= 0 rounded to a multiple of q, to nearest, ties to the even multiple
RoundTo(x, q) ==
    LET lo == x \div q
        r  == x - lo * q
    IN  IF 2 * r < q THEN lo * q
        ELSE IF 2 * r > q THEN (lo + 1) * q
        ELSE IF lo % 2 = 0 THEN lo * q ELSE (lo + 1) * q

RoundMag(x) == RoundTo(x, Quantum(x, 1))

\* the float nearest to the integer x
RoundF(x) == IF x < 0 THEN -RoundMag(-x) ELSE RoundMag(x)

\* the float nearest to the rational n/d, d > 0
RoundRat(n, d) ==
    LET m == IF n < 0 THEN -n ELSE n
        i == RoundTo(m, d) \div d
    IN  IF n < 0 THEN -RoundMag(i) ELSE RoundMag(i)

FAdd(a, b) == RoundF(a + b)
FSub(a, b) == RoundF(a - b)
\* the float product of the float d and the fraction k/FracScale
FMulFrac(d, k) == RoundRat(d * k, FracScale)

FinalValues == {RoundF(0), RoundF(10)}
InitialTargetValue == RoundF(1)
InitialStagingValue == RoundF(4)
StartValues == {RoundF(2)}

\* the RenderProperty values modelled, and the DirtyPropertyMask bits of the same names
Properties == {"TRANSLATION_X", "TRANSLATION_Z"}

\* ------------------------------------------------------------------- state
VARIABLES
    mFinalValue,        \* float
    mDeltaValue,        \* float
    mFromValue,         \* float
    mInterpolator,      \* NullInterpolator or the owned interpolator
    mStagingPlayState,  \* PlayState written by the control side
    mPlayState,         \* PlayState read by animate
    mHasStartValue,     \* bool
    mStartTime,         \* nsecs_t
    mDuration,          \* nsecs_t
    mStartDelay,        \* nsecs_t
    mListener,          \* whether a listener is set
    targetValue,        \* the animated property of the target (committed copy)
    info,               \* frameTimeMs and out.hasAnimations of the TreeInfo of the last
                        \* pushStaging/animate call, as the call left it
    call,               \* the last call: its name, inputs and outcome
    notified,           \* number of finished notifications issued so far
    uncommitted,        \* start() moved staging off NOT_STARTED and no pushStaging ran since
    cancelled,          \* cancel() was called
    crashed,            \* "none", or why the process aborted
    mProperty,          \* RenderPropertyAnimator: the RenderProperty of mPropertyAccess
    stagingValue,       \* that property in the target's staging properties
    dirtyFields,        \* the DirtyPropertyMask bits set on the target
    clock               \* the frame time of the render loop

fields == <<mFinalValue, mDeltaValue, mFromValue, mInterpolator, mStagingPlayState,
            mPlayState, mHasStartValue, mStartTime, mDuration, mStartDelay, mListener>>
\* the target's staging side and the render loop's clock: no operation of the
\* base animator touches them
env == <<mProperty, stagingValue, dirtyFields, clock>>
vars == <<fields, targetValue, info, call, notified, uncommitted, cancelled, crashed, env>>

\* the TreeInfo recorded for a call that takes none
NoInfo == [frameTimeMs |-> 0, hasAnimations |-> FALSE]

\* the record of a call; fields a call does not use keep these defaults
Called(op) ==
    [op |-> op, arg |-> 0, hadAnimations |-> FALSE, ret |-> FALSE, wrote |-> FALSE,
     fired |-> "none", prePlayState |-> mPlayState]

\* the state after construction, all but the target's staging side and the clock
Constructed ==
    /\ mFinalValue \in FinalValues
    /\ mDeltaValue = 0
    /\ mFromValue = 0
    /\ mInterpolator = NullInterpolator
    /\ mStagingPlayState = NOT_STARTED
    /\ mPlayState = NOT_STARTED
    /\ mHasStartValue = FALSE
    /\ mStartTime = 0
    /\ mDuration = DefaultDuration
    /\ mStartDelay = 0
    /\ mListener = FALSE
    /\ targetValue = InitialTargetValue
    /\ info = NoInfo
    /\ call = [op |-> "new", arg |-> 0, hadAnimations |-> FALSE, ret |-> FALSE,
               wrote |-> FALSE, fired |-> "none", prePlayState |-> NOT_STARTED]
    /\ notified = 0
    /\ uncommitted = FALSE
    /\ cancelled = FALSE
    /\ crashed = "none"

\* a CanvasPropertyPrimitiveAnimator: onAttached does nothing, the target has no
\* staging side
Init ==
    /\ Constructed
    /\ mProperty = "none"
    /\ stagingValue = InitialStagingValue
    /\ dirtyFields = {}
    /\ clock = 0

\* ------------------------------------------------------ interpolators
\* Interpolator::interpolate on the fraction grid.  "linear" is the identity,
\* "reverse" maps f to 1 - f (an interpolator that does not map 1 to 1), and the
\* default one eases in and out between 0 and 1 (3f^2 - 2f^3 on the grid).
interpolate(i, k) ==
    CASE i = "linear"  -> k
      [] i = "reverse" -> FracScale - k
      [] OTHER         -> (3 * k * k * FracScale - 2 * k * k * k) \div (FracScale * FracScale)

\* ------------------------------------------------------------- setters
\* a checkMutable that looks at the committed play state
checkMutableCommitted == mPlayState = NOT_STARTED

\* checkMutable: TRUE when the LOG_ALWAYS_FATAL_IF does not fire
checkMutable == mStagingPlayState = NOT_STARTED

setInterpolator(interpolator) ==
    /\ crashed = "none"
    /\ call' = Called("setInterpolator")
    /\ info' = NoInfo
    /\ IF checkMutable
       THEN /\ mInterpolator' = interpolator
            /\ crashed' = "none"
       ELSE /\ crashed' = "notMutable"
            /\ UNCHANGED mInterpolator
    /\ UNCHANGED <<mFinalValue, mDeltaValue, mFromValue, mStagingPlayState, mPlayState,
                   mHasStartValue, mStartTime, mDuration, mStartDelay, mListener,
                   targetValue, notified, uncommitted, cancelled>>

\* a doSetStartValue with the difference the wrong way round
doSetStartValueReversed(value) == <<value, FSub(value, mFinalValue)>>

\* doSetStartValue: the new <<mFromValue, mDeltaValue>>
doSetStartValue(value) == <<value, FSub(mFinalValue, value)>>

setStartValue(value) ==
    /\ crashed = "none"
    /\ call' = [Called("setStartValue") EXCEPT !.arg = value]
    /\ info' = NoInfo
    /\ IF checkMutable
       THEN /\ mFromValue' = doSetStartValue(value)[1]
            /\ mDeltaValue' = doSetStartValue(value)[2]
            /\ mHasStartValue' = TRUE
            /\ crashed' = "none"
       ELSE /\ crashed' = "notMutable"
            /\ UNCHANGED <<mFromValue, mDeltaValue, mHasStartValue>>
    /\ UNCHANGED <<mFinalValue, mInterpolator, mStagingPlayState, mPlayState,
                   mStartTime, mDuration, mStartDelay, mListener,
                   targetValue, notified, uncommitted, cancelled>>

setDuration(duration) ==
    /\ crashed = "none"
    /\ call' = [Called("setDuration") EXCEPT !.arg = duration]
    /\ info' = NoInfo
    /\ IF checkMutable
       THEN /\ mDuration' = duration
            /\ crashed' = "none"
       ELSE /\ crashed' = "notMutable"
            /\ UNCHANGED mDuration
    /\ UNCHANGED <<mFinalValue, mDeltaValue, mFromValue, mInterpolator, mStagingPlayState,
                   mPlayState, mHasStartValue, mStartTime, mStartDelay, mListener,
                   targetValue, notified, uncommitted, cancelled>>

setStartDelay(startDelay) ==
    /\ crashed = "none"
    /\ call' = [Called("setStartDelay") EXCEPT !.arg = startDelay]
    /\ info' = NoInfo
    /\ IF checkMutable
       THEN /\ mStartDelay' = startDelay
            /\ crashed' = "none"
       ELSE /\ crashed' = "notMutable"
            /\ UNCHANGED mStartDelay
    /\ UNCHANGED <<mFinalValue, mDeltaValue, mFromValue, mInterpolator, mStagingPlayState,
                   mPlayState, mHasStartValue, mStartTime, mDuration, mListener,
                   targetValue, notified, uncommitted, cancelled>>

\* ------------------------------------------- control side, Animator.h
setListener ==
    /\ crashed = "none"
    /\ call' = Called("setListener")
    /\ info' = NoInfo
    /\ mListener' = TRUE
    /\ UNCHANGED <<mFinalValue, mDeltaValue, mFromValue, mInterpolator, mStagingPlayState,
                   mPlayState, mHasStartValue, mStartTime, mDuration, mStartDelay,
                   targetValue, notified, uncommitted, cancelled, crashed>>

start ==
    /\ crashed = "none"
    /\ call' = Called("start")
    /\ info' = NoInfo
    /\ mStagingPlayState' = RUNNING
    /\ uncommitted' = (uncommitted \/ mStagingPlayState = NOT_STARTED)
    /\ UNCHANGED <<mFinalValue, mDeltaValue, mFromValue, mInterpolator, mPlayState,
                   mHasStartValue, mStartTime, mDuration, mStartDelay, mListener,
                   targetValue, notified, cancelled, crashed>>

cancel ==
    /\ crashed = "none"
    /\ call' = Called("cancel")
    /\ info' = NoInfo
    /\ mStagingPlayState' = FINISHED
    /\ uncommitted' = FALSE
    /\ cancelled' = TRUE
    /\ UNCHANGED <<mFinalValue, mDeltaValue, mFromValue, mInterpolator, mPlayState,
                   mHasStartValue, mStartTime, mDuration, mStartDelay, mListener,
                   targetValue, notified, crashed>>

\* ------------------------------------------------------ value accessor
\* getValue(target): the target's current value
getValue == targetValue

\* setValue(target, value): the target's value after the write
setValue(value) == value

\* ---------------------------------------------------------- pushStaging
\* a start value test that always asks for a new start value
AlwaysNeedsStartValue(hasStartValue) == TRUE

\* the test before a start value is captured: !mHasStartValue
NeedsStartValue(hasStartValue) == ~hasStartValue

\* a staging guard that copies whenever the two states differ
StagingDiffers(staging, play) == staging # play

\* the guard of the staging copy: mStagingPlayState > mPlayState
StagingAhead(staging, play) == staging > play

\* a frame time check that lets frame time 0 through
NegativeFrameTime(frameTimeMs) == frameTimeMs < 0

\* the guard of the LOG_ALWAYS_FATAL_IF of transitionToRunning
BadFrameTime(frameTimeMs) == frameTimeMs <= 0

\* a start time without the floor at 0
StartTimeUnclamped(frameTimeMs, startDelay) == frameTimeMs + startDelay

\* mStartTime as transitionToRunning computes it
StartTimeFor(frameTimeMs, startDelay) ==
    IF frameTimeMs + startDelay < 0 THEN 0 ELSE frameTimeMs + startDelay

\* transitionToRunning(info): sets mStartTime, mInterpolator and crashed.  The
\* default interpolator is installed through setInterpolator, which runs
\* checkMutable first.
transitionToRunning(frameTimeMs) ==
    IF BadFrameTime(frameTimeMs)
    THEN /\ crashed' = "badFrameTime"
         /\ UNCHANGED <<mStartTime, mInterpolator>>
    ELSE /\ mStartTime' = StartTimeFor(frameTimeMs, mStartDelay)
         /\ IF mInterpolator # NullInterpolator
            THEN /\ crashed' = "none"
                 /\ UNCHANGED mInterpolator
            ELSE IF checkMutable
            THEN /\ mInterpolator' = DefaultInterpolator
                 /\ crashed' = "none"
            ELSE /\ crashed' = "notMutable"
                 /\ UNCHANGED mInterpolator

pushStaging(frameTimeMs) ==
    LET sv      == IF NeedsStartValue(mHasStartValue) THEN doSetStartValue(getValue)
                   ELSE <<mFromValue, mDeltaValue>>
        advance == StagingAhead(mStagingPlayState, mPlayState)
        play    == IF advance THEN mStagingPlayState ELSE mPlayState
    IN  /\ crashed = "none"
        /\ call' = Called("pushStaging")
        /\ info' = [NoInfo EXCEPT !.frameTimeMs = frameTimeMs]
        /\ mFromValue' = sv[1]
        /\ mDeltaValue' = sv[2]
        /\ mHasStartValue' = TRUE
        /\ mPlayState' = play
        /\ uncommitted' = FALSE
        /\ IF advance /\ play = RUNNING
           THEN transitionToRunning(frameTimeMs)
           ELSE UNCHANGED <<mStartTime, mInterpolator, crashed>>
        /\ UNCHANGED <<mFinalValue, mStagingPlayState, mDuration, mStartDelay, mListener,
                       targetValue, notified, cancelled>>

\* -------------------------------------------------------------- animate
\* a first early return that is never taken
NeverIdle(play) == play < NOT_STARTED

\* the first early return: mPlayState < RUNNING
NotYetRunning(play) == play < RUNNING

\* a second early return that starts one frame time early
BeforeStartOffByOne(startTime, frameTimeMs) == startTime > frameTimeMs + 1

\* the second early return: mStartTime > info.frameTimeMs
BeforeStart(startTime, frameTimeMs) == startTime > frameTimeMs

\* a raw fraction that starts at 0, not 1, when the duration is not positive
RawFractionFromZero(play, duration, startTime, frameTimeMs) ==
    IF play = RUNNING
    THEN (IF duration > 0
          THEN ((frameTimeMs - startTime) * FracScale) \div duration
          ELSE 0)
    ELSE FracScale

\* the fraction before the clamp, on the fraction grid (the quotient is cut to
\* the grid, so that it reaches 1 exactly when the elapsed time reaches the
\* duration)
RawFraction(play, duration, startTime, frameTimeMs) ==
    IF play = RUNNING /\ duration > 0
    THEN ((frameTimeMs - startTime) * FracScale) \div duration
    ELSE FracScale

\* a clamp test that misses a fraction of exactly 1
FractionOverOne(fraction) == fraction > FracScale

\* fraction >= 1.0f
FractionDone(fraction) == fraction >= FracScale

\* an animated value that leaves out mFromValue
AnimatedDelta(from, delta, fraction) == FMulFrac(delta, fraction)

\* mFromValue + (mDeltaValue * fraction)
AnimatedValue(from, delta, fraction) == FAdd(from, FMulFrac(delta, fraction))

\* a flag update that ORs in false
KeepAnimating(hasAnimations) == hasAnimations

\* info.out.hasAnimations |= true
MarkAnimating(hasAnimations) == hasAnimations \/ TRUE

\* callOnFinishedListener: how the notification is issued
callOnFinishedListener(animationHook) ==
    IF mListener THEN (IF animationHook THEN "hook" ELSE "direct") ELSE "none"

\* what mInterpolator->interpolate(fraction) can do: the eased fraction, or, on
\* a null mInterpolator (undefined behaviour), a fault or any fraction
InterpolateOutcomes(fraction) ==
    IF mInterpolator = NullInterpolator
    THEN {[fault |-> TRUE, eased |-> 0]}
         \cup {[fault |-> FALSE, eased |-> k] : k \in 0..FracScale}
    ELSE {[fault |-> FALSE, eased |-> interpolate(mInterpolator, fraction)]}

animate(frameTimeMs, hasAnimations, animationHook) ==
    LET raw      == RawFraction(mPlayState, mDuration, mStartTime, frameTimeMs)
        done     == FractionDone(raw)
        fraction == IF done THEN FracScale ELSE raw
        play     == IF done THEN FINISHED ELSE mPlayState
        c        == [Called("animate") EXCEPT !.hadAnimations = hasAnimations]
        in       == [frameTimeMs |-> frameTimeMs, hasAnimations |-> hasAnimations]
    IN  /\ crashed = "none"
        /\ notified < MaxNotify
        /\ UNCHANGED <<mFinalValue, mDeltaValue, mFromValue, mInterpolator,
                       mStagingPlayState, mHasStartValue, mStartTime, mDuration,
                       mStartDelay, mListener, uncommitted, cancelled>>
        /\ IF NotYetRunning(mPlayState)
           THEN /\ call' = c
                /\ info' = in
                /\ UNCHANGED <<mPlayState, targetValue, notified, crashed>>
           ELSE IF BeforeStart(mStartTime, frameTimeMs)
           THEN /\ call' = c
                /\ info' = [in EXCEPT !.hasAnimations = MarkAnimating(hasAnimations)]
                /\ UNCHANGED <<mPlayState, targetValue, notified, crashed>>
           ELSE \E out \in InterpolateOutcomes(fraction) :
                /\ mPlayState' = play
                /\ IF out.fault
                   THEN /\ crashed' = "nullInterpolator"
                        /\ call' = c
                        /\ info' = in
                        /\ UNCHANGED <<targetValue, notified>>
                   ELSE /\ crashed' = "none"
                        /\ targetValue' = setValue(AnimatedValue(mFromValue, mDeltaValue, out.eased))
                        /\ IF play = FINISHED
                           THEN /\ call' = [c EXCEPT !.wrote = TRUE, !.ret = TRUE,
                                               !.fired = callOnFinishedListener(animationHook)]
                                /\ notified' = IF mListener THEN notified + 1 ELSE notified
                                /\ info' = in
                           ELSE /\ call' = [c EXCEPT !.wrote = TRUE]
                                /\ notified' = notified
                                /\ info' = [in EXCEPT !.hasAnimations = MarkAnimating(hasAnimations)]

\* ------------------------------------------------------- specification
Next ==
    \/ \E i \in {NullInterpolator, "linear", "reverse"} : setInterpolator(i) /\ UNCHANGED env
    \/ \E v \in StartValues : setStartValue(v) /\ UNCHANGED env
    \/ \E d \in Durations : setDuration(d) /\ UNCHANGED env
    \/ \E d \in StartDelays : setStartDelay(d) /\ UNCHANGED env
    \/ setListener /\ UNCHANGED env
    \/ start /\ UNCHANGED env
    \/ cancel /\ UNCHANGED env
    \/ \E t \in FrameTimes : pushStaging(t) /\ UNCHANGED env
    \/ \E t \in FrameTimes, f \in BOOLEAN, h \in BOOLEAN : animate(t, f, h) /\ UNCHANGED env

Spec == Init /\ [][Next]_vars

\* ----------------------------------------------- RenderPropertyAnimator
\* PROPERTY_ACCESSOR_LUT: the dirtyMask column.  The row of TRANSLATION_Z
\* carries RenderNode::TRANSLATION_X.
PROPERTY_ACCESSOR_LUT ==
    [p \in Properties |->
        [dirtyMask |-> IF p = "TRANSLATION_Z" THEN "TRANSLATION_X" ELSE p]]

\* RenderPropertyAnimator::dirtyMask: mPropertyAccess->dirtyMask
dirtyMask == PROPERTY_ACCESSOR_LUT[mProperty].dirtyMask

\* target->isPropertyFieldDirty(mask)
isPropertyFieldDirty(mask) == mask \in dirtyFields

\* RenderPropertyAnimator::onAttached(target): captures the staging value through
\* setStartValue (which runs checkMutable), then writes finalValue() to the
\* staging properties
onAttached ==
    LET capture == NeedsStartValue(mHasStartValue) /\ isPropertyFieldDirty(dirtyMask)
    IN  /\ crashed = "none"
        /\ mProperty \in Properties
        /\ call' = [Called("onAttached") EXCEPT !.arg = stagingValue]
        /\ info' = NoInfo
        /\ IF capture /\ ~checkMutable
           THEN /\ crashed' = "notMutable"
                /\ UNCHANGED <<mFromValue, mDeltaValue, mHasStartValue, stagingValue>>
           ELSE /\ crashed' = "none"
                /\ stagingValue' = mFinalValue
                /\ IF capture
                   THEN /\ mFromValue' = doSetStartValue(stagingValue)[1]
                        /\ mDeltaValue' = doSetStartValue(stagingValue)[2]
                        /\ mHasStartValue' = TRUE
                   ELSE UNCHANGED <<mFromValue, mDeltaValue, mHasStartValue>>
        /\ UNCHANGED <<mFinalValue, mInterpolator, mStagingPlayState, mPlayState,
                       mStartTime, mDuration, mStartDelay, mListener,
                       targetValue, notified, uncommitted, cancelled,
                       mProperty, dirtyFields, clock>>

\* a RenderPropertyAnimator for one of the properties, and a target with any
\* set of dirty fields
InitAttach ==
    /\ Constructed
    /\ mProperty \in Properties
    /\ stagingValue = InitialStagingValue
    /\ dirtyFields \in SUBSET Properties
    /\ clock = 0

NextAttach ==
    \/ \E i \in {"linear"} : setInterpolator(i) /\ UNCHANGED env
    \/ \E v \in StartValues : setStartValue(v) /\ UNCHANGED env
    \/ start /\ UNCHANGED env
    \/ cancel /\ UNCHANGED env
    \/ onAttached
    \/ \E t \in FrameTimes : pushStaging(t) /\ UNCHANGED env
    \/ \E t \in FrameTimes, f \in BOOLEAN, h \in BOOLEAN : animate(t, f, h) /\ UNCHANGED env

SpecAttach == InitAttach /\ [][NextAttach]_vars

\* ------------------------------------------------------ the render loop
\* the last frame time of the render loop: past the end of every animation
\* that a commit at a frame time up to MaxTime can start
Horizon == MaxTime + MaxDelay + MaxDuration + 1

\* an animator after setInterpolator, setDuration, setStartDelay and perhaps
\* setListener, before start()
Configured ==
    /\ mFinalValue \in FinalValues
    /\ mHasStartValue = FALSE
    /\ mFromValue = 0
    /\ mDeltaValue = 0
    /\ mInterpolator = "linear"
    /\ mStagingPlayState = NOT_STARTED
    /\ mPlayState = NOT_STARTED
    /\ mStartTime = 0
    /\ mDuration \in Durations
    /\ mStartDelay \in StartDelays
    /\ mListener \in BOOLEAN
    /\ targetValue = InitialTargetValue
    /\ info = NoInfo
    /\ call = [op |-> "new", arg |-> 0, hadAnimations |-> FALSE, ret |-> FALSE,
               wrote |-> FALSE, fired |-> "none", prePlayState |-> NOT_STARTED]
    /\ notified = 0
    /\ uncommitted = FALSE
    /\ cancelled = FALSE
    /\ crashed = "none"

InitLoop ==
    /\ Configured
    /\ mProperty = "none"
    /\ stagingValue = InitialStagingValue
    /\ dirtyFields = {}
    /\ clock = 0

\* the commit of a frame: pushStaging with the frame time of the render loop
Commit ==
    /\ clock <= MaxTime
    /\ pushStaging(clock)
    /\ UNCHANGED env

\* one frame: the frame time moves on and animate is called with it, on a
\* fresh TreeInfo
Frame ==
    \E dt \in 1..2 :
        /\ clock + dt <= Horizon
        /\ clock' = clock + dt
        /\ animate(clock + dt, FALSE, FALSE)
        /\ UNCHANGED <<mProperty, stagingValue, dirtyFields>>

NextLoop ==
    \/ start /\ UNCHANGED env
    \/ cancel /\ UNCHANGED env
    \/ Commit
    \/ Frame

\* the render loop keeps producing frames
SpecLive == InitLoop /\ [][NextLoop]_vars /\ WF_vars(Frame)

\* ----------------------------------------------------------- shorthands
Animated == call.op = "animate"
Committed == call.op = "pushStaging"
\* the last call was a commit that moved mPlayState from NOT_STARTED to RUNNING
MovedIntoRunning == Committed /\ call.prePlayState = NOT_STARTED /\ mPlayState = RUNNING
\* the calls so far are setters, start, pushStaging and animate only
NeverCancelled == ~cancelled
Setters == {"setInterpolator", "setStartValue", "setDuration", "setStartDelay"}
config == <<mInterpolator, mDuration, mStartDelay, mFromValue, mDeltaValue, mHasStartValue>>

\* ------------------------------------------------------------------ C1
\* C1: over the calls the claim names (setters, start, pushStaging, animate; no
\* cancel), the finished notification is issued at most once in total, and the
\* call that issues it is the animate call that moved mPlayState into FINISHED.
C1_NotifiedAtMostOnce ==
    NeverCancelled =>
        /\ notified <= 1
        /\ (call.fired # "none" =>
                Animated /\ call.prePlayState # FINISHED /\ mPlayState = FINISHED)

\* ------------------------------------------------------------------ C2
\* C2: an animate call on an animator whose mPlayState is already FINISHED (a
\* started animator that finished in an earlier animate call, evaluated again at
\* a frame time not before its start time) is a no-op: no write to the target,
\* mPlayState and out.hasAnimations unchanged, returns false.
C2_FinishedIsNoOp ==
    (/\ NeverCancelled
     /\ Animated
     /\ call.prePlayState = FINISHED
     /\ info.frameTimeMs >= mStartTime) =>
        /\ ~call.wrote
        /\ ~call.ret
        /\ call.fired = "none"
        /\ mPlayState = FINISHED
        /\ info.hasAnimations = call.hadAnimations

\* ------------------------------------------------------------------ C3
\* C3: a commit that moves mPlayState from NOT_STARTED to RUNNING with a frame
\* time > 0 completes without a fatal failure and leaves the animator with an
\* interpolator (the default one when none was set).
C3_DefaultInterpolatorInstalled ==
    (MovedIntoRunning /\ info.frameTimeMs > 0) =>
        /\ crashed = "none"
        /\ mInterpolator # NullInterpolator

\* ------------------------------------------------------------------ C4
\* C4: mPlayState never decreases, and a commit changes mPlayState only when
\* mStagingPlayState is strictly greater, and then to mStagingPlayState.
C4_MonotonicCommit ==
    [][/\ mPlayState' >= mPlayState
       /\ (call'.op = "pushStaging" /\ mPlayState' # mPlayState) =>
              (mStagingPlayState > mPlayState /\ mPlayState' = mStagingPlayState)]_vars

\* a commit ran while staging (RUNNING) was behind a FINISHED mPlayState
C4_Witness ==
    /\ Committed
    /\ call.prePlayState = FINISHED
    /\ mStagingPlayState = RUNNING
    /\ mPlayState = FINISHED

\* ------------------------------------------------------------------ C5
\* C5: while start() has advanced mStagingPlayState to RUNNING and no commit has
\* run since, mPlayState is still NOT_STARTED and an animate call is a no-op: no
\* write to the target, out.hasAnimations as it was passed in, returns false.
C5_StartInvisibleUntilCommit ==
    uncommitted =>
        /\ mPlayState = NOT_STARTED
        /\ Animated =>
              /\ ~call.wrote
              /\ ~call.ret
              /\ call.fired = "none"
              /\ info.hasAnimations = call.hadAnimations

\* animate ran between start() and the next commit
C5_Witness ==
    /\ uncommitted
    /\ mStagingPlayState = RUNNING
    /\ Animated
    /\ ~call.hadAnimations

\* ------------------------------------------------------------------ C6
\* C6: a setter call succeeds (stores its argument, no failure) exactly when
\* mStagingPlayState is NOT_STARTED at the call; otherwise it ends in the fatal
\* state and leaves mInterpolator, mDuration, mStartDelay, mFromValue,
\* mDeltaValue and mHasStartValue unchanged.
C6_SettersOnlyBeforeStart ==
    [][call'.op \in Setters =>
          /\ (crashed' = "none") <=> (mStagingPlayState = NOT_STARTED)
          /\ mStagingPlayState # NOT_STARTED => (crashed' = "notMutable" /\ config' = config)
          /\ (mStagingPlayState = NOT_STARTED /\ call'.op = "setDuration") =>
                mDuration' = call'.arg
          /\ (mStagingPlayState = NOT_STARTED /\ call'.op = "setStartDelay") =>
                mStartDelay' = call'.arg
          /\ (mStagingPlayState = NOT_STARTED /\ call'.op = "setStartValue") =>
                (mFromValue' = call'.arg /\ mHasStartValue')]_vars

\* a setter was called on a started animator and failed
C6_Witness ==
    /\ call.op \in Setters
    /\ mStagingPlayState = RUNNING
    /\ crashed = "notMutable"

\* ------------------------------------------------------------------ C7
\* C7: for a RUNNING animator with duration > 0 and an interpolator that maps 1
\* to 1, an animate call with frameTime >= startTime + duration writes exactly
\* mFinalValue to the target, moves mPlayState to FINISHED and returns true.
C7_EndsAtFinalValue ==
    (/\ Animated
     /\ call.prePlayState = RUNNING
     /\ mDuration > 0
     /\ interpolate(mInterpolator, FracScale) = FracScale
     /\ info.frameTimeMs >= mStartTime + mDuration) =>
        /\ call.wrote
        /\ targetValue = mFinalValue
        /\ mPlayState = FINISHED
        /\ call.ret

C9_NotYetStarted ==
    (Animated /\ call.prePlayState >= RUNNING /\ info.frameTimeMs < mStartTime) =>
        /\ info.hasAnimations
        /\ ~call.ret
        /\ ~call.wrote
        /\ call.fired = "none"
        /\ mPlayState = call.prePlayState
        /\ crashed = "none"

\* animate ran before the start time with out.hasAnimations passed in as false
C9_Witness ==
    /\ Animated
    /\ call.prePlayState = RUNNING
    /\ info.frameTimeMs < mStartTime
    /\ ~call.hadAnimations
    /\ info.hasAnimations

\* ------------------------------------------------------------------ C10
\* C10: a commit that moves mPlayState into RUNNING with frameTime <= 0 ends in
\* the fatal state, and the frame time check fails in no other call: a commit
\* that does not move mPlayState into RUNNING never fails on it.
C10_FrameTimeChecked ==
    /\ (MovedIntoRunning /\ info.frameTimeMs <= 0) => crashed = "badFrameTime"
    /\ crashed = "badFrameTime" => (MovedIntoRunning /\ info.frameTimeMs <= 0)
    /\ (Committed /\ ~MovedIntoRunning) => crashed = "none"

\* a commit moved mPlayState into RUNNING at frame time 0 and failed
C10_Witness ==
    /\ MovedIntoRunning
    /\ info.frameTimeMs = 0
    /\ crashed = "badFrameTime"

\* ------------------------------------------------------------------ C11
\* C11: mStartTime is never negative; it is written only by the commit that
\* moves mPlayState from NOT_STARTED to RUNNING, which sets it to
\* max(0, frameTime + mStartDelay); no other call changes it.
C11_StartTimeComputedOnce ==
    [][LET activating == /\ call'.op = "pushStaging"
                         /\ mPlayState = NOT_STARTED
                         /\ mPlayState' = RUNNING
                         /\ crashed' # "badFrameTime"
           sum        == info'.frameTimeMs + mStartDelay
       IN  /\ mStartTime >= 0
           /\ mStartTime' >= 0
           /\ activating => mStartTime' = (IF sum > 0 THEN sum ELSE 0)
           /\ ~activating => mStartTime' = mStartTime]_vars

\* a later commit, at another frame time, left a positive start time alone
C11_Witness ==
    /\ Committed
    /\ call.prePlayState = RUNNING
    /\ mStartTime > 0
    /\ info.frameTimeMs + mStartDelay # mStartTime

\* ------------------------------------------------------------------ C13
\* C13: when a commit clamps mStartTime to 0 (frameTime + mStartDelay < 0), the
\* next call, if it is an animate call at the same or a later frame time,
\* writes mFinalValue, moves mPlayState to FINISHED and returns true.
C13_ClampedStartFinishesAtOnce ==
    [][(/\ MovedIntoRunning
        /\ crashed = "none"
        /\ info.frameTimeMs + mStartDelay < 0
        /\ call'.op = "animate"
        /\ info'.frameTimeMs >= info.frameTimeMs) =>
            /\ call'.ret
            /\ mPlayState' = FINISHED
            /\ targetValue' = mFinalValue]_vars

\* ------------------------------------------------------------------ C14
\* the elapsed part of the duration, on the fraction grid
ElapsedFraction(frameTimeMs) == ((frameTimeMs - mStartTime) * FracScale) \div mDuration

C15_StartValueCaptured ==
    [][/\ mHasStartValue' => mDeltaValue' = RoundF(mFinalValue' - mFromValue')
       /\ (call'.op = "pushStaging" /\ ~mHasStartValue) =>
              (mHasStartValue' /\ mFromValue' = targetValue)]_vars

\* a commit captured the target's value while staging was still NOT_STARTED
C15_Witness ==
    /\ Committed
    /\ mStagingPlayState = NOT_STARTED
    /\ mHasStartValue
    /\ mFromValue = InitialTargetValue
    /\ mFinalValue # mFromValue
    /\ mDeltaValue # 0

\* ------------------------------------------------------------------ C17
\* C17: an animate call that returns never clears out.hasAnimations, and with
\* mPlayState >= RUNNING it either returns true and leaves the flag as it was,
\* or returns false and leaves the flag set.
C17_FlagOnlySet ==
    (Animated /\ crashed = "none") =>
        /\ call.hadAnimations => info.hasAnimations
        /\ call.prePlayState >= RUNNING =>
              \/ (call.ret /\ info.hasAnimations = call.hadAnimations)
              \/ (~call.ret /\ info.hasAnimations)

\* an animate call on a running animator returned false and set the flag
C17_Witness ==
    /\ Animated
    /\ call.prePlayState = RUNNING
    /\ call.wrote
    /\ ~call.ret
    /\ ~call.hadAnimations
    /\ info.hasAnimations

C20_InterpolatorOwned ==
    (crashed = "none" /\ mPlayState >= RUNNING) => mInterpolator # NullInterpolator

\* ------------------------------------------------------------------ C12
\* C12 as stated: once mHasStartValue is true it stays true, and no later call
\* (pushStaging, onAttached, animate or setStartValue) changes mFromValue or
\* mDeltaValue.
C12_StartValueNeverChanges ==
    [][mHasStartValue =>
          /\ mHasStartValue'
          /\ mFromValue' = mFromValue
          /\ mDeltaValue' = mDeltaValue]_vars

\* C12 amended: once mHasStartValue is true it stays true, and no later
\* pushStaging, onAttached or animate call (nor any call but setStartValue)
\* changes mFromValue or mDeltaValue; a later setStartValue call that passes
\* checkMutable replaces them by its argument and mFinalValue minus it.
C12_StartValueKeptUnlessSet ==
    [][mHasStartValue =>
          /\ mHasStartValue'
          /\ call'.op # "setStartValue" =>
                (mFromValue' = mFromValue /\ mDeltaValue' = mDeltaValue)
          /\ (call'.op = "setStartValue" /\ crashed' = "none") =>
                /\ mFromValue' = call'.arg
                /\ mDeltaValue' = RoundF(mFinalValue - call'.arg)]_vars

\* an attach that had nothing to capture (a start value was there, the dirty
\* bit set) and left a start value that differs from the staging value it saw
C12_Witness ==
    /\ call.op = "onAttached"
    /\ crashed = "none"
    /\ mHasStartValue
    /\ dirtyMask \in dirtyFields
    /\ mFromValue # call.arg
    /\ stagingValue = mFinalValue

\* ------------------------------------------------------------------ C16
\* C16: an onAttached call that returns captures the staging value of the
\* property as the start value if and only if no start value was set and the
\* property's own dirty bit is set on the target; it then leaves the staging
\* value at mFinalValue and does not touch the committed value.
C16_AttachCapturesOwnDirtyBit ==
    [][(call'.op = "onAttached" /\ crashed' = "none") =>
          /\ (~mHasStartValue /\ mHasStartValue' /\ mFromValue' = stagingValue)
                <=> (~mHasStartValue /\ mProperty \in dirtyFields)
          /\ stagingValue' = mFinalValue
          /\ targetValue' = targetValue]_vars

\* ------------------------------------------------------------------ C19
\* C19: with a frame produced again and again and frame times that only grow, a
\* RUNNING animator eventually is FINISHED, whatever mStartDelay and mDuration
\* are; and a FINISHED animator stays FINISHED.
C19_EventuallyFinished ==
    /\ (mPlayState = RUNNING /\ crashed = "none") ~> (mPlayState = FINISHED)
    /\ [][mPlayState = FINISHED => mPlayState' = FINISHED]_vars

\* a frame finished an animator that had a positive duration and had to wait
\* for its start time
C19_Witness ==
    /\ Animated
    /\ call.prePlayState = RUNNING
    /\ mPlayState = FINISHED
    /\ info.frameTimeMs = clock
    /\ mDuration > 0
    /\ mStartDelay > 0
    /\ clock >= mStartTime + mDuration

====
